---- MODULE Spec2Model ----
(***************************************************************************)
(* Model of the wte-mt-rx-parser crate: the top-level parse of lib.rs, the *)
(* three fixed-width decoders (rss.rs, mt_structured.rs, mt_raw.rs) and    *)
(* compute_checksum.  A text is a sequence of one-character strings, a     *)
(* byte slice is a sequence of integers 0..255.                            *)
(***************************************************************************)
EXTENDS Integers, Sequences, FiniteSets, TLC

VARIABLES message, data_source, result, checksum, routed, pc

vars == <<message, data_source, result, checksum, routed, pc>>

(***************************************************************************)
(* Bounds of the input space.                                              *)
(***************************************************************************)
\* most whitespace characters put before and after a line
MaxPad == 1
\* longest byte slice given to compute_checksum directly
MaxBytes == 10

(***************************************************************************)
(* Characters and the standard-library conversions the decoders use.       *)
(***************************************************************************)
DecDigits == {"0", "1", "2", "3", "4", "5", "6", "7", "8", "9"}
UpperChars == {"A", "B", "C", "D", "E", "F", "L", "M", "N", "S", "T", "W", "X", "Z"}
LowerChars == {"a", "b", "c", "d", "e", "f", "z"}

\* str::as_bytes on one ASCII character: its code
Ord(c) ==
    CASE c = "0" -> 48 [] c = "1" -> 49 [] c = "2" -> 50 [] c = "3" -> 51
      [] c = "4" -> 52 [] c = "5" -> 53 [] c = "6" -> 54 [] c = "7" -> 55
      [] c = "8" -> 56 [] c = "9" -> 57
      [] c = "A" -> 65 [] c = "B" -> 66 [] c = "C" -> 67 [] c = "D" -> 68
      [] c = "E" -> 69 [] c = "F" -> 70 [] c = "L" -> 76 [] c = "M" -> 77
      [] c = "N" -> 78 [] c = "S" -> 83 [] c = "T" -> 84 [] c = "W" -> 87
      [] c = "X" -> 88 [] c = "Z" -> 90
      [] c = "a" -> 97 [] c = "b" -> 98 [] c = "c" -> 99 [] c = "d" -> 100
      [] c = "e" -> 101 [] c = "f" -> 102 [] c = "z" -> 122
      [] c = " " -> 32 [] c = "\n" -> 10 [] c = "\r" -> 13
      [] c = "+" -> 43 [] c = "," -> 44 [] c = "-" -> 45

\* &str -> &[u8]
as_bytes(s) == [i \in 1..Len(s) |-> Ord(s[i])]

\* char::is_whitespace, on the characters of the model
is_whitespace(c) == c \in {" ", "\n", "\r"}

RECURSIVE trim_start(_)
trim_start(s) ==
    IF s # <<>> /\ is_whitespace(Head(s)) THEN trim_start(Tail(s)) ELSE s

RECURSIVE trim_end(_)
trim_end(s) ==
    IF s # <<>> /\ is_whitespace(s[Len(s)])
    THEN trim_end(SubSeq(s, 1, Len(s) - 1))
    ELSE s

\* str::trim
trim(s) == trim_end(trim_start(s))

\* str::starts_with
starts_with(s, prefix) ==
    /\ Len(s) >= Len(prefix)
    /\ SubSeq(s, 1, Len(prefix)) = prefix

\* message[a..b] of an ASCII text whose length is at least b
Slice(s, a, b) == SubSeq(s, a + 1, b)

\* message[a..b] of an ASCII text does not panic: the range lies in the text
Sliceable(s, a, b) == a <= b /\ b <= Len(s)

\* message.as_bytes()[i] does not panic
Indexable(s, i) == i < Len(s)

\* the call does not return: a slice or an index out of bounds, or the unwrap
\* of a failed array conversion, panics
Panic == [tag |-> "Panic"]

None == [some |-> FALSE]
Some(v) == [some |-> TRUE, val |-> v]

Ok(v) == [tag |-> "Ok", val |-> v]
Err(e) == [tag |-> "Err", err |-> e]

\* Result::ok
ok(r) == IF r.tag = "Ok" THEN Some(r.val) ELSE None

\* Result::unwrap_or
unwrap_or(r, default) == IF r.tag = "Ok" THEN r.val ELSE default

\* char::to_digit(radix): the digit's value, or -1 when c is no digit of the radix
to_digit(c, radix) ==
    LET v == IF c \in DecDigits THEN Ord(c) - 48
             ELSE IF c \in UpperChars THEN Ord(c) - 65 + 10
             ELSE IF c \in LowerChars THEN Ord(c) - 97 + 10
             ELSE -1
    IN IF v >= 0 /\ v < radix THEN v ELSE -1

\* the largest value of the unsigned type; a usize holds every value that the
\* slices of at most four characters parsed here can denote
Fits(ty, n) ==
    CASE ty = "u8" -> n <= 255
      [] ty = "u16" -> n <= 65535
      [] ty = "usize" -> TRUE

RECURSIVE Accumulate(_, _, _, _)
\* the digit loop of from_str_radix: acc * radix + digit, checked
Accumulate(digits, radix, ty, acc) ==
    IF digits = <<>> THEN Ok(acc)
    ELSE LET d == to_digit(Head(digits), radix) IN
         IF d < 0 THEN Err("InvalidDigit")
         ELSE IF ~Fits(ty, acc * radix + d) THEN Err("PosOverflow")
         ELSE Accumulate(Tail(digits), radix, ty, acc * radix + d)

\* <unsigned>::from_str_radix(src, radix), which str::parse::<unsigned>() calls
\* with radix 10: an optional '+' sign, then at least one digit
from_str_radix(src, radix, ty) ==
    IF src = <<>> THEN Err("Empty")
    ELSE IF src = <<"+">> \/ src = <<"-">> THEN Err("InvalidDigit")
    ELSE IF Head(src) = "+" THEN Accumulate(Tail(src), radix, ty, 0)
    ELSE Accumulate(src, radix, ty, 0)

\* str::parse::<ty>()
parse_int(src, ty) == from_str_radix(src, 10, ty)

(***************************************************************************)
(* ParseError and ParsedMessage of lib.rs.                                 *)
(***************************************************************************)
ParseIntError(kind) == [type |-> "ParseIntError", kind |-> kind]
SizeNotMatch(expected, found) ==
    [type |-> "SizeNotMatch", expected |-> expected, found |-> found]
Invalid == [type |-> "Invalid"]

\* the ? operator on a Result<_, ParseIntError>: #[from] ParseIntError
Propagate(r) == Err(ParseIntError(r.err))

(***************************************************************************)
(* rss.rs                                                                  *)
(***************************************************************************)
RSS_LEN == 8

is_rss(msg) == starts_with(msg, <<"S", "S", ",">>)

\* mutant: NNN parsed into 16 bits
rss_parse_u16(msg) ==
    IF Len(msg) # RSS_LEN THEN Err(SizeNotMatch(RSS_LEN, Len(msg)))
    ELSE LET x == msg[4]
             nnn == parse_int(Slice(msg, 5, 8), "u16")
         IN IF nnn.tag = "Err" THEN Propagate(nnn)
            ELSE IF x = "A" THEN Ok([nnn |-> nnn.val, rss_type |-> "Alert"])
            ELSE IF x = "1" THEN Ok([nnn |-> nnn.val, rss_type |-> "Frequency"])
            ELSE Err(Invalid)

\* mutant: the discriminator is checked before the number
rss_parse_type_first(msg) ==
    IF Len(msg) # RSS_LEN THEN Err(SizeNotMatch(RSS_LEN, Len(msg)))
    ELSE LET x == msg[4]
             nnn == parse_int(Slice(msg, 5, 8), "u8")
         IN IF x \notin {"A", "1"} THEN Err(Invalid)
            ELSE IF nnn.tag = "Err" THEN Propagate(nnn)
            ELSE IF x = "A" THEN Ok([nnn |-> nnn.val, rss_type |-> "Alert"])
            ELSE Ok([nnn |-> nnn.val, rss_type |-> "Frequency"])

\* rss::parse after its size check: the byte X, the slice NNN, the match
rss_fields(msg) ==
    IF ~Indexable(msg, 3) \/ ~Sliceable(msg, 5, 8) THEN Panic
    ELSE LET x == msg[4]
             nnn == parse_int(Slice(msg, 5, 8), "u8")
         IN IF nnn.tag = "Err" THEN Propagate(nnn)
            ELSE IF x = "A" THEN Ok([nnn |-> nnn.val, rss_type |-> "Alert"])
            ELSE IF x = "1" THEN Ok([nnn |-> nnn.val, rss_type |-> "Frequency"])
            ELSE Err(Invalid)

rss_parse(msg) ==
    IF Len(msg) # RSS_LEN THEN Err(SizeNotMatch(RSS_LEN, Len(msg)))
    ELSE rss_fields(msg)

(***************************************************************************)
(* mt_raw.rs                                                               *)
(***************************************************************************)
MT6_LEN == 49

mt_raw_is_mt(msg) == starts_with(msg, <<"M", "T", "6">>)

RECURSIVE BitXor(_, _)
BitXor(a, b) ==
    IF a = 0 THEN b
    ELSE IF b = 0 THEN a
    ELSE (((a % 2) + (b % 2)) % 2) + 2 * BitXor(a \div 2, b \div 2)

RECURSIVE BitAnd(_, _)
BitAnd(a, b) ==
    IF a = 0 \/ b = 0 THEN 0
    ELSE ((a % 2) * (b % 2)) + 2 * BitAnd(a \div 2, b \div 2)

RECURSIVE BitOr(_, _)
BitOr(a, b) ==
    IF a = 0 THEN b
    ELSE IF b = 0 THEN a
    ELSE (IF a % 2 = 1 \/ b % 2 = 1 THEN 1 ELSE 0) + 2 * BitOr(a \div 2, b \div 2)

\* u16 << 1: the bit shifted out of the register is lost
Shl1(a) == (a * 2) % 65536

\* mutant: bit 0 is not set when bit 15 was set
ChecksumStepPlainShift(acc, byte) == Shl1(BitXor(acc, byte))

\* one iteration of the loop of compute_checksum
ChecksumStep(acc, byte) ==
    LET x == BitXor(acc, byte) IN
    IF BitAnd(x, 32768) # 0 THEN BitOr(Shl1(x), 1) ELSE Shl1(x)

RECURSIVE ChecksumFrom(_, _)
\* the loop of compute_checksum from the accumulator acc, a u16, over the bytes left
ChecksumFrom(acc, bytes) ==
    CASE bytes = <<>> -> acc
      [] bytes # <<>> /\ acc \in 0..65535 ->
            ChecksumFrom(ChecksumStep(acc, Head(bytes)), Tail(bytes))

compute_checksum(bytes) == ChecksumFrom(0, bytes)

\* mutant: the payload taken one byte early
mt_raw_parse_early(msg) ==
    IF Len(msg) # MT6_LEN THEN Err(SizeNotMatch(MT6_LEN, Len(msg)))
    ELSE LET sequence_number == parse_int(Slice(msg, 6, 9), "usize")
             chk == from_str_radix(Slice(msg, 45, 49), 16, "u16")
         IN IF sequence_number.tag = "Err" THEN Propagate(sequence_number)
            ELSE IF chk.tag = "Err" THEN Propagate(chk)
            ELSE Ok([header |-> Slice(msg, 0, 3),
                     id |-> Slice(msg, 3, 6),
                     sequence_number |-> sequence_number.val,
                     data |-> as_bytes(Slice(msg, 8, 44)),
                     checksum |-> chk.val])

\* mt_raw::parse after its size check, in the order of the statements: the
\* slices up to the sequence number, its `?`, the payload and its conversion
\* to [u8; 36], the checksum and its `?`
mt_raw_fields(msg) ==
    IF ~Sliceable(msg, 0, 3) \/ ~Sliceable(msg, 3, 6) \/ ~Sliceable(msg, 6, 9)
    THEN Panic
    ELSE LET sequence_number == parse_int(Slice(msg, 6, 9), "usize")
             chk == from_str_radix(Slice(msg, 45, 49), 16, "u16")
         IN IF sequence_number.tag = "Err" THEN Propagate(sequence_number)
            ELSE IF ~Sliceable(msg, 9, 45) THEN Panic
            ELSE IF Len(Slice(msg, 9, 45)) # 36 THEN Panic
            ELSE IF ~Sliceable(msg, 45, 49) THEN Panic
            ELSE IF chk.tag = "Err" THEN Propagate(chk)
            ELSE Ok([header |-> Slice(msg, 0, 3),
                     id |-> Slice(msg, 3, 6),
                     sequence_number |-> sequence_number.val,
                     data |-> as_bytes(Slice(msg, 9, 45)),
                     checksum |-> chk.val])

mt_raw_parse(msg) ==
    IF Len(msg) # MT6_LEN THEN Err(SizeNotMatch(MT6_LEN, Len(msg)))
    ELSE mt_raw_fields(msg)

(***************************************************************************)
(* mt_structured.rs                                                        *)
(***************************************************************************)
MT1_LEN == 47

\* mutant: the structured family recognised by "MT" alone
mt_structured_is_mt_any(msg) == starts_with(msg, <<"M", "T">>)

mt_structured_is_mt(msg) == starts_with(msg, <<"M", "T", "1">>)

\* From<char> for CardinalDirection
CardinalDirection(c) ==
    CASE c = "W" -> "West"
      [] c = "E" -> "East"
      [] c = "N" -> "North"
      [] c = "S" -> "South"
      [] OTHER -> "Unknown"

\* From<char> for MtMessageType
MtMessageType(c) ==
    CASE c = "T" -> "Test"
      [] c = "A" -> "Alert"
      [] OTHER -> "Unknown"

lat_degrees_of(msg) == ok(parse_int(Slice(msg, 28, 30), "u8"))
lat_minutes_of(msg) == ok(parse_int(Slice(msg, 30, 32), "u8"))
lat_seconds_of(msg) == ok(parse_int(Slice(msg, 32, 34), "u8"))
\* mutant: the longitude degrees parsed into 8 bits
long_degrees_u8(msg) == ok(parse_int(Slice(msg, 35, 38), "u8"))
long_degrees_of(msg) == ok(parse_int(Slice(msg, 35, 38), "u16"))
long_minutes_of(msg) == ok(parse_int(Slice(msg, 38, 40), "u8"))
long_seconds_of(msg) == ok(parse_int(Slice(msg, 40, 42), "u8"))

mt_structured_checksum_of(msg) ==
    unwrap_or(from_str_radix(Slice(msg, 43, 47), 16, "u16"), 0)

\* the slices and indexes mt_structured::parse takes after the sequence number
StructuredAccessesInBounds(msg) ==
    /\ Indexable(msg, 9) /\ Indexable(msg, 10)
    /\ Sliceable(msg, 11, 26) /\ Sliceable(msg, 26, 28)
    /\ Sliceable(msg, 28, 30) /\ Sliceable(msg, 30, 32) /\ Sliceable(msg, 32, 34)
    /\ Indexable(msg, 34)
    /\ Sliceable(msg, 35, 38) /\ Sliceable(msg, 38, 40) /\ Sliceable(msg, 40, 42)
    /\ Indexable(msg, 42)
    /\ Sliceable(msg, 43, 47)

\* mt_structured::parse after its size check, in the order of the statements
mt_structured_fields(msg) ==
    IF ~Sliceable(msg, 0, 3) \/ ~Sliceable(msg, 3, 6) \/ ~Sliceable(msg, 6, 9)
    THEN Panic
    ELSE LET sequence_number == parse_int(Slice(msg, 6, 9), "usize")
         IN IF sequence_number.tag = "Err" THEN Propagate(sequence_number)
            ELSE IF ~StructuredAccessesInBounds(msg) THEN Panic
            ELSE Ok([header |-> Slice(msg, 0, 3),
                     id |-> Slice(msg, 3, 6),
                     sequence_number |-> sequence_number.val,
                     message_type |-> MtMessageType(msg[10]),
                     format_flag |-> msg[11],
                     beacon |-> Slice(msg, 11, 26),
                     signal_strength |-> Slice(msg, 26, 28),
                     lat_degrees |-> lat_degrees_of(msg),
                     lat_minutes |-> lat_minutes_of(msg),
                     lat_seconds |-> lat_seconds_of(msg),
                     lat_direction |-> CardinalDirection(msg[35]),
                     long_degrees |-> long_degrees_of(msg),
                     long_minutes |-> long_minutes_of(msg),
                     long_seconds |-> long_seconds_of(msg),
                     long_direction |-> CardinalDirection(msg[43]),
                     checksum |-> mt_structured_checksum_of(msg)])

\* mutant: only a longer message is rejected for its size
mt_structured_parse_longer_only(msg) ==
    IF Len(msg) > MT1_LEN THEN Err(SizeNotMatch(MT1_LEN, Len(msg)))
    ELSE mt_structured_fields(msg)

mt_structured_parse(msg) ==
    IF Len(msg) # MT1_LEN THEN Err(SizeNotMatch(MT1_LEN, Len(msg)))
    ELSE mt_structured_fields(msg)

(***************************************************************************)
(* lib.rs                                                                  *)
(***************************************************************************)
\* the arm of the match in parse that the trimmed line takes
Arm(msg) ==
    IF is_rss(msg) THEN "rss"
    ELSE IF mt_structured_is_mt(msg) THEN "mt_structured"
    ELSE IF mt_raw_is_mt(msg) THEN "mt_raw"
    ELSE "none"

\* mutant: a decoder's failure is turned into ParsedMessage::Invalid
WrapLenient(variant, r) ==
    IF r.tag = "Panic" THEN r
    ELSE IF r.tag = "Err" THEN Ok([variant |-> "Invalid"])
    ELSE Ok([variant |-> variant, value |-> r.val])

\* ParsedMessage::X(decoder(msg)?); a panic of the decoder unwinds through parse
Wrap(variant, r) ==
    IF r.tag \in {"Err", "Panic"} THEN r ELSE Ok([variant |-> variant, value |-> r.val])

parse(line) ==
    LET msg == trim(line)
        arm == Arm(msg)
    IN CASE arm = "rss" -> Wrap("Rss", rss_parse(msg))
         [] arm = "mt_structured" -> Wrap("MtStructured", mt_structured_parse(msg))
         [] arm = "mt_raw" -> Wrap("MtRaw", mt_raw_parse(msg))
         [] OTHER -> Ok([variant |-> "Invalid"])

(***************************************************************************)
(* The lines given to the decoders: the lines of the crate's tests and     *)
(* documentation, and lines that differ from them in one field.            *)
(***************************************************************************)
\* MT1 001 000 A L 400C592753572B3 23 43 32 12 S 172 37 56 E 4706
Id001 == <<"0", "0", "1">>
Beacon == <<"4", "0", "0", "C", "5", "9", "2", "7", "5", "3", "5", "7", "2", "B", "3">>
Signal == <<"2", "3">>

\* MT6 001 001 FFFE2FA00E0000CBAB959DB0903788C71B79 F84B
RawData1 ==
    <<"F", "F", "F", "E", "2", "F", "A", "0", "0", "E", "0", "0",
      "0", "0", "C", "B", "A", "B", "9", "5", "9", "D", "B", "0",
      "9", "0", "3", "7", "8", "8", "C", "7", "1", "B", "7", "9">>
\* MT6 001 001 FFFE2FA0062C93A9AB959E55EE7788C71B79 1131
RawData2 ==
    <<"F", "F", "F", "E", "2", "F", "A", "0", "0", "6", "2", "C",
      "9", "3", "A", "9", "A", "B", "9", "5", "9", "E", "5", "5",
      "E", "E", "7", "7", "8", "8", "C", "7", "1", "B", "7", "9">>

MtStructuredSample ==
    <<"M", "T", "1">> \o Id001 \o <<"0", "0", "0">> \o <<"A", "L">> \o Beacon
        \o Signal \o <<"4", "3", "3", "2", "1", "2", "S">>
        \o <<"1", "7", "2", "3", "7", "5", "6", "E">> \o <<"4", "7", "0", "6">>

MtRawSample ==
    <<"M", "T", "6">> \o Id001 \o <<"0", "0", "1">> \o RawData1
        \o <<"F", "8", "4", "B">>

\* texts for the sequence number NNN
SeqTexts ==
    { <<"0", "0", "0">>, <<"0", "0", "1">>, <<"5", "1", "1">>, <<"5", "1", "2">>,
      <<"9", "9", "9">>, <<"a", "a", "a">>, <<"+", "1", "2">>, <<"-", "1", "2">>,
      <<"1", " ", "2">>, <<"0", "0", "F">> }

\* texts for a two-character location subfield
TwoCharTexts == { <<"4", "3">>, <<"-", "-">>, <<"+", "5">> }
\* further texts for the latitude degrees
LatDegTexts == TwoCharTexts \cup { <<"4", "-">>, <<"0", "0">> }
\* texts for the longitude degrees
LongDegTexts ==
    { <<"1", "7", "2">>, <<"-", "-", "-">>, <<"9", "9", "9">>, <<"+", "7", "2">>,
      <<"2", "5", "6">> }

\* texts for the checksum YYYY without a sign character
PlainChecksumTexts ==
    { <<"4", "7", "0", "6">>, <<"F", "8", "4", "B">>, <<"Z", "Z", "Z", "Z">>,
      <<"f", "f", "f", "f">>, <<"F", "F", "F", "F">>, <<"0", "0", "0", "0">>,
      <<"4", "7", " ", "6">>, <<"-", "-", "-", "-">> }

\* texts for the checksum YYYY
ChecksumTexts ==
    PlainChecksumTexts \cup { <<"+", "8", "4", "B">>, <<"-", "8", "4", "B">> }

UpperHex ==
    <<"0", "1", "2", "3", "4", "5", "6", "7", "8", "9", "A", "B", "C", "D", "E", "F">>
LowerHex ==
    <<"0", "1", "2", "3", "4", "5", "6", "7", "8", "9", "a", "b", "c", "d", "e", "f">>

\* the four hexadecimal characters YYYY the receiver sends for a 16-bit value
Hex4(v, digits) ==
    << digits[(v \div 4096) + 1], digits[((v \div 256) % 16) + 1],
       digits[((v \div 16) % 16) + 1], digits[(v % 16) + 1] >>

\* an MT1 line from its sequence number, its latitude (7 characters), its
\* longitude (8 characters) and its checksum text
MtStructuredLine(header, seq, lat, long, chk) ==
    header \o Id001 \o seq \o <<"A", "L">> \o Beacon \o Signal \o lat \o long \o chk

MtHeaders == { <<"M", "T", d>> : d \in DecDigits }

\* MT1 lines of 47 characters that differ in their location subfields
LocationLines ==
    { MtStructuredLine(<<"M", "T", "1">>, <<"0", "0", "0">>,
                       latd \o latm \o lats \o <<"S">>,
                       longd \o longm \o longs \o <<"E">>, <<"4", "7", "0", "6">>) :
        latd \in LatDegTexts, latm \in TwoCharTexts, lats \in TwoCharTexts,
        longd \in LongDegTexts, longm \in TwoCharTexts, longs \in TwoCharTexts }

\* MT1 lines of 47 characters without location: every location character is '-'
NoLocationLines ==
    { MtStructuredLine(<<"M", "T", "1">>, seq,
                       <<"-", "-", "-", "-", "-", "-", latdir>>,
                       <<"-", "-", "-", "-", "-", "-", "-", longdir>>, chk) :
        seq \in { <<"0", "0", "0">>, <<"5", "1", "2">> },
        latdir \in {"-", "N"}, longdir \in {"-", "W"}, chk \in PlainChecksumTexts }

\* lines of 47 characters, MT0 .. MT9, that differ in sequence number and checksum
HeaderLines ==
    { MtStructuredLine(h, seq, <<"4", "3", "3", "2", "1", "2", "S">>,
                       <<"1", "7", "2", "3", "7", "5", "6", "E">>, chk) :
        h \in MtHeaders, seq \in SeqTexts, chk \in ChecksumTexts }

\* 36-character payloads
RawDatas ==
    { RawData1, RawData2 }
        \cup { <<a, b>> \o SubSeq(RawData1, 3, 36) :
                 a \in {"0", "A", "Z"}, b \in {"5", "f"} }

\* checksum texts of an MT6 line with the payload data: the value the receiver
\* computes over the payload, in either case, and the texts of ChecksumTexts
RawChecksumTexts(data) ==
    ChecksumTexts
        \cup { Hex4(compute_checksum(as_bytes(data)), hx) : hx \in {UpperHex, LowerHex} }

\* MT6 lines of 49 characters
RawLines ==
    UNION { { <<"M", "T", "6">> \o Id001 \o seq \o data \o chk :
                seq \in SeqTexts, chk \in RawChecksumTexts(data) } :
            data \in RawDatas }

\* the samples cut short or run long: every length but the family's own
SizedLines ==
    { SubSeq(MtStructuredSample, 1, n) : n \in 3..(MT1_LEN - 1) }
        \cup { SubSeq(MtRawSample, 1, n) : n \in 3..(MT6_LEN - 1) }
        \cup { MtStructuredSample \o SubSeq(Beacon, 1, n) : n \in 1..3 }
        \cup { MtRawSample \o SubSeq(Beacon, 1, n) : n \in 1..3 }

\* texts after "SS,X,"
NnnTexts ==
    { <<"1", "2", "3">>, <<"0", "0", "0">>, <<"2", "5", "5">>, <<"2", "5", "6">>,
      <<"6", "6", "6">>, <<"0", "9", "9">>, <<"+", "1", "2">>, <<"-", "1", "2">>,
      <<"1", "a", "3">>, <<"1", " ", "3">>, <<"1", "2", "3", "4">>,
      <<"1", "2", "3", "6", "7">>, <<"1", "2">>, <<>> }

RssLines ==
    { <<"S", "S", ",", x, sep>> \o nnn :
        x \in {"A", "1", "2", "X", "a"}, sep \in {",", "-"}, nnn \in NnnTexts }

\* lines of no family, and the bare prefixes
OtherLines ==
    { <<>>, <<"S">>, <<"S", "S">>, <<"S", "S", ",">>, <<"S", "S", "A", ",", "1", "2", "3">>,
      <<"s", "s", ",", "A", ",", "1", "2", "3">>, <<"M">>, <<"M", "T">>,
      <<"M", "T", "A">>, <<"T", "M", "1">>, <<"X", "S", "S", ",", "A", ",", "1", "2", "3">>,
      <<"1", "2", "3">>, <<"S", " ", "S", ",", "A", ",", "1", "2", "3">> }

Texts == LocationLines \cup NoLocationLines \cup HeaderLines \cup RawLines \cup SizedLines
             \cup RssLines \cup OtherLines

\* a line as it arrives: spaces before the text, line ends after it
Leader(k) == [i \in 1..k |-> " "]
Trailer(k) == [i \in 1..k |-> IF (k - i) % 2 = 0 THEN "\n" ELSE "\r"]
Lines == { Leader(i) \o t \o Trailer(j) : t \in Texts, i \in 0..MaxPad, j \in 0..MaxPad }

\* byte slices given to compute_checksum directly
RECURSIVE ByteSeqs(_)
ByteSeqs(n) ==
    IF n = 0 THEN { <<>> }
    ELSE LET shorter == ByteSeqs(n - 1) IN
         shorter \cup { Append(b, x) : b \in { s \in shorter : Len(s) = n - 1 },
                                        x \in {70, 255} }

(***************************************************************************)
(* The state machine: one call on one input.                               *)
(***************************************************************************)
NoResult == [tag |-> "None"]

Init ==
    /\ \/ message \in Lines /\ data_source = <<>>
       \/ message = <<>> /\ data_source \in ByteSeqs(MaxBytes)
    /\ result = NoResult
    /\ checksum = None
    /\ routed = "none"
    /\ pc = "start"

\* wte_mt_rx_parser::parse(message)
Parse ==
    /\ pc = "start"
    /\ data_source = <<>>
    /\ result' = parse(message)
    /\ routed' = Arm(trim(message))
    /\ pc' = "parse"
    /\ UNCHANGED <<message, data_source, checksum>>

\* rss::parse(message)
RssParse ==
    /\ pc = "start"
    /\ data_source = <<>>
    /\ result' = rss_parse(message)
    /\ pc' = "rss"
    /\ UNCHANGED <<message, data_source, checksum, routed>>

\* mt_structured::parse(message)
MtStructuredParse ==
    /\ pc = "start"
    /\ data_source = <<>>
    /\ result' = mt_structured_parse(message)
    /\ pc' = "mt_structured"
    /\ UNCHANGED <<message, data_source, checksum, routed>>

\* mt_raw::parse(message)
MtRawParse ==
    /\ pc = "start"
    /\ data_source = <<>>
    /\ result' = mt_raw_parse(message)
    /\ pc' = "mt_raw"
    /\ UNCHANGED <<message, data_source, checksum, routed>>

\* mt_raw::compute_checksum(data_source)
ComputeChecksum ==
    /\ pc = "start"
    /\ message = <<>>
    /\ checksum' = Some(compute_checksum(data_source))
    /\ pc' = "checksum"
    /\ UNCHANGED <<message, data_source, result, routed>>

\* mt_raw::compute_checksum(&v.data) of a parsed MtRaw v
MtRawChecksum ==
    /\ pc = "parse"
    /\ result.tag = "Ok"
    /\ result.val.variant = "MtRaw"
    /\ data_source' = result.val.value.data
    /\ checksum' = Some(compute_checksum(result.val.value.data))
    /\ pc' = "verified"
    /\ UNCHANGED <<message, result, routed>>

Next ==
    \/ Parse
    \/ RssParse
    \/ MtStructuredParse
    \/ MtRawParse
    \/ ComputeChecksum
    \/ MtRawChecksum

Spec == Init /\ [][Next]_vars

(***************************************************************************)
(* Vocabulary of the properties.                                           *)
(***************************************************************************)
\* the text the decoder is given: parse trims the line, a decoder called
\* directly takes it as it is
DecoderArg == IF pc \in {"parse", "verified"} THEN trim(message) ELSE message

\* the decoder that ran
Decoder == IF pc \in {"parse", "verified"} THEN routed ELSE pc

\* the call returned the error of this type
Failed(type) == result.tag = "Err" /\ result.err.type = type

\* the call returned a record of this decoder
Decoded(variant) ==
    /\ result.tag = "Ok"
    /\ pc \in {"parse", "verified"} => result.val.variant = variant

\* the record a successful call returned
Record == IF pc \in {"parse", "verified"} THEN result.val.value ELSE result.val

\* the text begins with the three characters a, b, c
Begins(t, a, b, c) == Len(t) >= 3 /\ t[1] = a /\ t[2] = b /\ t[3] = c

IsRssText(t) == Begins(t, "S", "S", ",")
IsMt1Text(t) == Begins(t, "M", "T", "1")
IsMt6Text(t) == Begins(t, "M", "T", "6")

AllIn(t, chars) == \A i \in 1..Len(t) : t[i] \in chars

\* the value of a text of decimal digits
DecimalOf(t) ==
    LET d(c) == CHOOSE n \in 0..9 : UpperHex[n + 1] = c
        pow[k \in 0..Len(t)] == IF k = 0 THEN 1 ELSE 10 * pow[k - 1]
        sum[k \in 0..Len(t)] ==
            IF k = 0 THEN 0 ELSE sum[k - 1] + d(t[k]) * pow[Len(t) - k]
    IN sum[Len(t)]

\* the number a text denotes for the decoders, -1 if it denotes none: decimal
\* digits, which one '+' may precede
NumberOf(t) ==
    IF t # <<>> /\ AllIn(t, DecDigits) THEN DecimalOf(t)
    ELSE IF Len(t) >= 2 /\ t[1] = "+" /\ AllIn(Tail(t), DecDigits) THEN DecimalOf(Tail(t))
    ELSE -1

(***************************************************************************)
(* C1                                                                      *)
(***************************************************************************)
\* C1: parse routes on the three-character prefix of the trimmed line alone:
\* "SS," to the RSS decoder, "MT1" to the structured decoder, "MT6" to the raw
\* decoder, whose result it returns; every other line, the empty one included,
\* gives Ok(ParsedMessage::Invalid), never an error.
C1_RoutesOnPrefix ==
    pc = "parse" =>
        LET t == trim(message) IN
        /\ IsRssText(t) => routed = "rss" /\ result = Wrap("Rss", rss_parse(t))
        /\ IsMt1Text(t) =>
              /\ routed = "mt_structured"
              /\ result = Wrap("MtStructured", mt_structured_parse(t))
        /\ IsMt6Text(t) => routed = "mt_raw" /\ result = Wrap("MtRaw", mt_raw_parse(t))
        /\ ~IsRssText(t) /\ ~IsMt1Text(t) /\ ~IsMt6Text(t) =>
              /\ routed = "none"
              /\ result = Ok([variant |-> "Invalid"])

\* a 47-character MT2 line was parsed and found to be of no family
C1_Witness ==
    /\ pc = "parse"
    /\ Begins(trim(message), "M", "T", "2")
    /\ Len(trim(message)) = MT1_LEN
    /\ result = Ok([variant |-> "Invalid"])

(***************************************************************************)
(* C2                                                                      *)
(***************************************************************************)
\* the fixed width of the family of a text, 0 when it is of no family
WidthOf(t) ==
    IF IsRssText(t) THEN 8 ELSE IF IsMt1Text(t) THEN 47 ELSE IF IsMt6Text(t) THEN 49 ELSE 0

\* C2: a line whose prefix is a family's but whose length (the decoder's input,
\* which is the trimmed line) is not the family's width 8, 47 or 49 makes parse
\* return the error SizeNotMatch with the width as expected and the length as
\* found, whatever its fields hold; a decoder called directly does the same.
C2_SizeMismatch ==
    /\ pc = "parse" =>
          LET t == trim(message) IN
          WidthOf(t) # 0 /\ Len(t) # WidthOf(t) =>
              result = Err(SizeNotMatch(WidthOf(t), Len(t)))
    /\ pc = "rss" /\ Len(message) # 8 => result = Err(SizeNotMatch(8, Len(message)))
    /\ pc = "mt_structured" /\ Len(message) # 47 =>
          result = Err(SizeNotMatch(47, Len(message)))
    /\ pc = "mt_raw" /\ Len(message) # 49 => result = Err(SizeNotMatch(49, Len(message)))

\* the MT6 sample cut to 43 characters was parsed
C2_Witness ==
    /\ pc = "parse"
    /\ IsMt6Text(trim(message))
    /\ Len(trim(message)) = 43
    /\ result = Err(SizeNotMatch(49, 43))

(***************************************************************************)
(* C3                                                                      *)
(***************************************************************************)
\* C3: on an 8-character text "SS,X,NNN" the RSS decoder checks the number
\* before the discriminator: if NNN denotes no number of 0..255 the result is
\* the ParseIntError, also when X is invalid; otherwise X = 'A' gives Alert and
\* X = '1' gives Frequency, with nnn the value of NNN, and any other X gives
\* the error Invalid.
C3_RssOrder ==
    Decoder = "rss" /\ Len(DecoderArg) = 8 /\ IsRssText(DecoderArg) =>
        LET x == DecoderArg[4]
            v == NumberOf(SubSeq(DecoderArg, 6, 8))
        IN IF v < 0 \/ v > 255 THEN Failed("ParseIntError")
           ELSE IF x = "A" THEN Decoded("Rss") /\ Record = [nnn |-> v, rss_type |-> "Alert"]
           ELSE IF x = "1"
                THEN Decoded("Rss") /\ Record = [nnn |-> v, rss_type |-> "Frequency"]
           ELSE result = Err(Invalid)

\* "SS,2,666" was parsed: the discriminator and the number are both invalid
C3_Witness ==
    /\ pc = "parse"
    /\ trim(message) = <<"S", "S", ",", "2", ",", "6", "6", "6">>
    /\ Failed("ParseIntError")

(***************************************************************************)
(* C4                                                                      *)
(***************************************************************************)
\* the text after "SS,X," of an RSS line
NnnText(t) == SubSeq(t, 6, Len(t))

\* C4 as claimed: a decoded nnn is in 0..255, and an RSS line whose number
\* takes more than three characters or exceeds 255 fails with the ParseIntError.
C4_AsClaimed ==
    Decoder = "rss" /\ IsRssText(DecoderArg) /\ Len(DecoderArg) >= 5 /\ DecoderArg[5] = "," =>
        /\ Decoded("Rss") => Record.nnn \in 0..255
        /\ LET n == NnnText(DecoderArg) IN
           n # <<>> /\ AllIn(n, DecDigits) /\ (Len(n) > 3 \/ DecimalOf(n) > 255) =>
               Failed("ParseIntError")

\* C4: a decoded nnn is in 0..255; an 8-character RSS line whose three digits
\* exceed 255 fails with the ParseIntError; an RSS line whose number takes more
\* than three characters is not 8 characters long and fails with SizeNotMatch,
\* expected 8, found its length.
C4_LevelRange ==
    Decoder = "rss" /\ IsRssText(DecoderArg) /\ Len(DecoderArg) >= 5 =>
        /\ Decoded("Rss") => Record.nnn \in 0..255
        /\ LET n == NnnText(DecoderArg) IN
           n # <<>> /\ AllIn(n, DecDigits) =>
               /\ Len(n) = 3 /\ DecimalOf(n) > 255 => Failed("ParseIntError")
               /\ Len(n) > 3 => result = Err(SizeNotMatch(8, Len(DecoderArg)))

\* "SS,A,1234" was parsed: it fails on its size
C4_Witness ==
    /\ pc = "parse"
    /\ trim(message) = <<"S", "S", ",", "A", ",", "1", "2", "3", "4">>
    /\ result = Err(SizeNotMatch(8, 9))

\* "SS,1,256" was parsed: three digits beyond the range of nnn
C4_OverflowReached ==
    /\ pc = "parse"
    /\ trim(message) = <<"S", "S", ",", "1", ",", "2", "5", "6">>
    /\ Failed("ParseIntError")

(***************************************************************************)
(* C5                                                                      *)
(***************************************************************************)
\* a location subfield of the record against its characters: present with the
\* value when they are decimal digits, absent when they are dashes or denote
\* no number
SubfieldOk(field, t) ==
    /\ AllIn(t, DecDigits) => field = Some(DecimalOf(t))
    /\ AllIn(t, {"-"}) => field = None
    /\ NumberOf(t) < 0 => field = None
    /\ NumberOf(t) >= 0 => field = Some(NumberOf(t))

\* C5: a 47-character MT1 text with a decimal sequence number is decoded, and
\* each of its six location subfields depends on its own characters only:
\* present with their value when they are digits, absent when they are dashes
\* or denote no number.
C5_LocationSubfields ==
    /\ Decoder = "mt_structured"
    /\ Len(DecoderArg) = 47
    /\ AllIn(SubSeq(DecoderArg, 7, 9), DecDigits)
    => /\ Decoded("MtStructured")
       /\ SubfieldOk(Record.lat_degrees, SubSeq(DecoderArg, 29, 30))
       /\ SubfieldOk(Record.lat_minutes, SubSeq(DecoderArg, 31, 32))
       /\ SubfieldOk(Record.lat_seconds, SubSeq(DecoderArg, 33, 34))
       /\ SubfieldOk(Record.long_degrees, SubSeq(DecoderArg, 36, 38))
       /\ SubfieldOk(Record.long_minutes, SubSeq(DecoderArg, 39, 40))
       /\ SubfieldOk(Record.long_seconds, SubSeq(DecoderArg, 41, 42))

\* a parsed record with its latitude present and its longitude absent
C5_Witness ==
    /\ pc = "parse"
    /\ Decoded("MtStructured")
    /\ Record.lat_degrees = Some(43) /\ Record.lat_minutes = Some(43)
    /\ Record.lat_seconds = Some(43)
    /\ Record.long_degrees = None /\ Record.long_minutes = None
    /\ Record.long_seconds = None

\* a parsed record of a line whose six subfields are dashes: all six absent
C5_NoLocationReached ==
    /\ pc = "parse"
    /\ Decoded("MtStructured")
    /\ AllIn(SubSeq(trim(message), 29, 34) \o SubSeq(trim(message), 36, 42), {"-"})
    /\ \A f \in {"lat_degrees", "lat_minutes", "lat_seconds",
                 "long_degrees", "long_minutes", "long_seconds"} : Record[f] = None

(***************************************************************************)
(* C6                                                                      *)
(***************************************************************************)
HexChars == DecDigits \cup {"A", "B", "C", "D", "E", "F", "a", "b", "c", "d", "e", "f"}

\* the value of a text of hexadecimal digits
HexOf(t) ==
    LET d(c) == CHOOSE n \in 0..15 : UpperHex[n + 1] = c \/ LowerHex[n + 1] = c
        pow[k \in 0..Len(t)] == IF k = 0 THEN 1 ELSE 16 * pow[k - 1]
        sum[k \in 0..Len(t)] ==
            IF k = 0 THEN 0 ELSE sum[k - 1] + d(t[k]) * pow[Len(t) - k]
    IN sum[Len(t)]

\* the four checksum characters of a text
ChecksumText(t) == SubSeq(t, Len(t) - 3, Len(t))

\* a text of the right size for its decoder, with a decimal sequence number
WellSized(dec, width) ==
    /\ Decoder = dec
    /\ Len(DecoderArg) = width
    /\ AllIn(SubSeq(DecoderArg, 7, 9), DecDigits)

\* C6: on a text of the right size with a decimal sequence number, checksum
\* characters that are not four hexadecimal digits leave the structured record
\* with checksum 0 and make the raw decoder fail with the ParseIntError; four
\* hexadecimal digits give both records their 16-bit value.
C6_ChecksumAsymmetry ==
    /\ WellSized("mt_structured", 47) =>
          /\ Decoded("MtStructured")
          /\ Record.checksum =
                IF AllIn(ChecksumText(DecoderArg), HexChars)
                THEN HexOf(ChecksumText(DecoderArg)) ELSE 0
    /\ WellSized("mt_raw", 49) =>
          IF AllIn(ChecksumText(DecoderArg), HexChars)
          THEN Decoded("MtRaw") /\ Record.checksum = HexOf(ChecksumText(DecoderArg))
          ELSE Failed("ParseIntError")

(***************************************************************************)
(* C7                                                                      *)
(***************************************************************************)
\* bit i of n
Bit(n, i) == (n \div (2 ^ i)) % 2

\* bit i of the XOR of a and b, in place
XorBit(a, b, i) == (2 ^ i) * ((Bit(a, i) + Bit(b, i)) % 2)

\* the byte XORed into the low 8 bits of a 16-bit accumulator
XorLow8(acc, byte) ==
    (acc - (acc % 256))
        + XorBit(acc, byte, 0) + XorBit(acc, byte, 1) + XorBit(acc, byte, 2)
        + XorBit(acc, byte, 3) + XorBit(acc, byte, 4) + XorBit(acc, byte, 5)
        + XorBit(acc, byte, 6) + XorBit(acc, byte, 7)

\* one step of the fold of the claim
FoldStep(acc, byte) ==
    LET x == XorLow8(acc, byte) IN
    IF Bit(x, 15) = 1 THEN (2 * x + 1) % 65536 ELSE (2 * x) % 65536

RECURSIVE FoldFrom(_, _, _)
\* the fold of the claim from the n-th byte on, acc being a 16-bit value
FoldFrom(acc, bytes, n) ==
    CASE n > Len(bytes) -> acc
      [] n <= Len(bytes) /\ acc \in 0..65535 ->
            FoldFrom(FoldStep(acc, bytes[n]), bytes, n + 1)

\* the fold of the claim over a byte slice
FoldOf(bytes) == FoldFrom(0, bytes, 1)

\* C7: compute_checksum is the fold that starts from 0 and, for each byte in
\* order, XORs it into the low 8 bits, then shifts left by one within 16 bits,
\* setting bit 0 when bit 15 was set; the empty slice gives 0, the result is a
\* 16-bit value, and the 36 bytes of "FFFE2FA00E0000CBAB959DB0903788C71B79"
\* give 0xF84B.
C7_ChecksumFold ==
    pc \in {"checksum", "verified"} =>
        /\ checksum.some
        /\ checksum.val = FoldOf(data_source)
        /\ checksum.val \in 0..65535
        /\ data_source = <<>> => checksum.val = 0
        /\ data_source = as_bytes(RawData1) => checksum.val = 63563

\* the checksum of the payload of the MT6 sample was computed
C7_Witness ==
    /\ pc = "verified"
    /\ data_source = as_bytes(RawData1)
    /\ checksum = Some(63563)

\* a checksum was computed over bytes given directly, bit 15 having been set
C7_CarryReached ==
    /\ pc = "checksum"
    /\ Len(data_source) = MaxBytes
    /\ checksum.val % 2 = 1

(***************************************************************************)
(* C8                                                                      *)
(***************************************************************************)
\* a 49-character MT6 line with a decimal sequence number whose checksum
\* characters are the hexadecimal digits of the checksum of its payload
SelfChecked(t) ==
    /\ Len(t) = 49
    /\ IsMt6Text(t)
    /\ AllIn(SubSeq(t, 7, 9), DecDigits)
    /\ ChecksumText(t) \in
          { Hex4(FoldOf([i \in 1..36 |-> Ord(t[9 + i])]), hx) : hx \in {UpperHex, LowerHex} }

\* C8: parse of such a line returns an MtRaw whose data are the 36 bytes of
\* the line from byte 9, in order, and compute_checksum of the data is the
\* record's checksum; for the MT6 sample that value is 0xF84B.
C8_RawRoundTrip ==
    pc \in {"parse", "verified"} /\ SelfChecked(trim(message)) =>
        /\ Decoded("MtRaw")
        /\ Record.data = [i \in 1..36 |-> Ord(trim(message)[9 + i])]
        /\ pc = "verified" => checksum = Some(Record.checksum)
        /\ trim(message) = MtRawSample => Record.checksum = 63563

\* the MT6 sample was parsed and the checksum of its data computed
C8_Witness ==
    /\ pc = "verified"
    /\ trim(message) = MtRawSample
    /\ checksum = Some(63563)
    /\ Record.checksum = 63563

(***************************************************************************)
(* C9                                                                      *)
(***************************************************************************)
\* every location character of a 47-character MT1 text is '-': the six
\* subfields, with or without the two direction characters
NoLocation(t) == AllIn(SubSeq(t, 29, 34) \o SubSeq(t, 36, 42), {"-"})

\* C9: the structured record of an MT1 message without location information
\* (every location subfield character is '-') has checksum 0.
C9_NoLocationChecksumZero ==
    Decoder = "mt_structured" /\ Decoded("MtStructured") /\ NoLocation(DecoderArg) =>
        Record.checksum = 0

(***************************************************************************)
(* C10                                                                     *)
(***************************************************************************)
\* C10: for both MT families the sequence number is the three characters at
\* bytes 6..9 read as an unsigned decimal number without a bound: three digits
\* 000..999 are accepted with their value, and characters that are not three
\* decimal digits make the decoder fail with the ParseIntError.
C10_SequenceNumber ==
    /\ Decoder = "mt_structured" /\ Len(DecoderArg) = 47 =>
          IF AllIn(SubSeq(DecoderArg, 7, 9), DecDigits)
          THEN /\ Decoded("MtStructured")
               /\ Record.sequence_number = DecimalOf(SubSeq(DecoderArg, 7, 9))
          ELSE Failed("ParseIntError")
    /\ Decoder = "mt_raw" /\ Len(DecoderArg) = 49 =>
          IF AllIn(SubSeq(DecoderArg, 7, 9), DecDigits)
          THEN result.tag = "Ok" =>
                  /\ Decoded("MtRaw")
                  /\ Record.sequence_number = DecimalOf(SubSeq(DecoderArg, 7, 9))
          ELSE Failed("ParseIntError")

(***************************************************************************)
(* C11                                                                     *)
(***************************************************************************)
ParsedMessageVariants == {"Rss", "MtStructured", "MtRaw", "Invalid"}
ParseErrorTypes == {"ParseIntError", "SizeNotMatch", "Invalid"}

\* C11: on every ASCII line, of any length, with or without whitespace around
\* it, the call returns: parse gives a ParsedMessage or a ParseError and a
\* decoder its record or a ParseError, never a panic of a slice, an index or
\* the 36-byte conversion; a decoder that went past its size check was given
\* a text of exactly its family's width, which holds every field it takes.
C11_Total ==
    pc \in {"parse", "verified", "rss", "mt_structured", "mt_raw"} =>
        /\ result.tag \in {"Ok", "Err"}
        /\ result.tag = "Err" => result.err.type \in ParseErrorTypes
        /\ pc \in {"parse", "verified"} /\ result.tag = "Ok" =>
              result.val.variant \in ParsedMessageVariants
        /\ Decoder # "none" /\ ~Failed("SizeNotMatch") =>
              Len(DecoderArg) = (CASE Decoder = "rss" -> 8
                                   [] Decoder = "mt_structured" -> 47
                                   [] Decoder = "mt_raw" -> 49)

\* the bare prefix "MT1", with whitespace around it, was parsed: an error of
\* size, and no slice was taken
C11_Witness ==
    /\ pc = "parse"
    /\ message # trim(message)
    /\ trim(message) = <<"M", "T", "1">>
    /\ result = Err(SizeNotMatch(47, 3))

\* the empty line was parsed
C11_EmptyReached ==
    /\ pc = "parse"
    /\ message = <<>>
    /\ result = Ok([variant |-> "Invalid"])

====
